---- MODULE Spec2Model ----
(***************************************************************************)
(* A model of the unixstring crate: UnixString, a growable byte string     *)
(* whose inner Vec<u8> holds exactly one 0x00, at its last index.          *)
(*                                                                         *)
(* Rust slices are indexed from 0 and TLA+ sequences from 1: a Rust index  *)
(* i is position i + 1 of the sequence.  All indices that the code         *)
(* computes (nul_pos, the offsets given to the raw pointer, the lengths)   *)
(* keep their Rust value in the model.                                     *)
(***************************************************************************)
EXTENDS Integers, Sequences, FiniteSets, TLC

\* ---------------------------------------------------------------- bounds
\* Longest byte sequence handed to a constructor or to push / push_bytes.
MaxArg == 2
\* Largest argument of with_capacity.
MaxCap == 1
\* push / push_bytes are called while the vector stays within this length
\* (terminator included): the length a constructor can reach.
MaxLen == MaxArg + 1

\* The bytes of the model: the nul byte, an ASCII byte ('a') and a byte that
\* is not valid UTF-8 (0xFF).
Byte == {0, 97, 255}
\* Those of them that occur in a &str.
TextByte == {0, 97}

\* The bytes of the strings that are viewed: the sampled bytes and the two
\* bytes of U+00E9, a lead byte and a continuation byte.
Utf8Byte == Byte \cup {195, 169}

\* The bytes of a path: the sampled bytes and the separator '/'.
PathByte == Byte \cup {47}

BoundedSeq(S, n) == UNION {[1 .. m -> S] : m \in 0 .. n}

\* ------------------------------------------------- Option / Result / usize
None == <<>>
Some(x) == <<x>>

\* usize arithmetic is modular; the model keeps a 16 bit word.
UsizeModulus == 2 ^ 16
wrapping_sub(a, b) == (a - b + UsizeModulus) % UsizeModulus

\* ------------------------------------------------------------- memchr.rs
RECURSIVE memchr_scan(_, _, _)
memchr_scan(needle, haystack, i) ==
    IF i >= Len(haystack) THEN None
    ELSE IF haystack[i + 1] = needle THEN Some(i)
    ELSE memchr_scan(needle, haystack, i + 1)

\* Mutant: the scan reports the last occurrence instead of the first.
RECURSIVE memchr_last(_, _, _)
memchr_last(needle, haystack, i) ==
    IF i = 0 THEN None
    ELSE IF haystack[i] = needle THEN Some(i - 1)
    ELSE memchr_last(needle, haystack, i - 1)

memchr_mut_last(needle, haystack) == memchr_last(needle, haystack, Len(haystack))

memchr(needle, haystack) == memchr_scan(needle, haystack, 0)

find_nul_byte(bytes) == memchr(0, bytes)

\* ---------------------------------------------------------- unix_string.rs
\* Mutant: the guard compares nul_pos, not nul_pos + 1, with the length.
validate_mut_guard(bytes) ==
    LET r == find_nul_byte(bytes) IN
    IF r # None /\ r[1] = Len(bytes) THEN "Ok"
    ELSE IF r # None THEN "InteriorNulByte"
    ELSE "MissingNulTerminator"

validate(bytes) ==
    LET r == find_nul_byte(bytes) IN
    IF r # None /\ r[1] + 1 = Len(bytes) THEN "Ok"
    ELSE IF r # None THEN "InteriorNulByte"
    ELSE "MissingNulTerminator"

\* Mutant: the existing terminator is not removed before the append.
extend_slice_mut_keep(inner, slice, debug) ==
    [panic |-> FALSE, inner |-> inner \o slice]

\* Mutant: the slice goes in front of the bytes that are there.
extend_slice_mut_front(inner, slice, debug) ==
    IF Len(inner) = 0 THEN [panic |-> TRUE, inner |-> inner]
    ELSE [panic |-> FALSE, inner |-> slice \o SubSeq(inner, 1, Len(inner) - 1)]

\* extend_slice: inner.remove(inner.len() - 1), debug_assert!(removed == 0),
\* inner.extend_from_slice(slice).  On an empty vector the index computation
\* overflows (debug build) or remove() rejects the wrapped index (release
\* build): a panic in both, with the vector untouched.  The debug assertion
\* fires after the removal, and only in a build with debug assertions.
extend_slice(inner, slice, debug) ==
    IF Len(inner) = 0 THEN [panic |-> TRUE, inner |-> inner]
    ELSE LET removed == inner[Len(inner)]
             rest == SubSeq(inner, 1, Len(inner) - 1)
         IN IF debug /\ removed # 0
            THEN [panic |-> TRUE, inner |-> rest]
            ELSE [panic |-> FALSE, inner |-> rest \o slice]

\* Mutant: the terminator is removed before the suffix is scanned.
push_bytes_mut_early(inner, bytes, debug) ==
    LET r == find_nul_byte(bytes)
        e == extend_slice(inner, bytes, debug)
    IN IF r # None /\ r[1] + 1 = Len(bytes)
       THEN [ret |-> IF e.panic THEN "panic" ELSE "Ok", inner |-> e.inner]
       ELSE IF r # None
       THEN [ret |-> "InteriorNulByte", inner |-> SubSeq(inner, 1, Len(inner) - 1)]
       ELSE [ret |-> IF e.panic THEN "panic" ELSE "Ok",
             inner |-> IF e.panic THEN e.inner ELSE e.inner \o <<0>>]

\* Mutant: no terminator is appended after a suffix that has none.
push_bytes_mut_noterm(inner, bytes, debug) ==
    LET r == find_nul_byte(bytes)
        e == extend_slice(inner, bytes, debug)
    IN IF r # None /\ r[1] + 1 = Len(bytes)
       THEN [ret |-> IF e.panic THEN "panic" ELSE "Ok", inner |-> e.inner]
       ELSE IF r # None
       THEN [ret |-> "InteriorNulByte", inner |-> inner]
       ELSE [ret |-> IF e.panic THEN "panic" ELSE "Ok", inner |-> e.inner]

\* Mutant: a terminator is appended after bytes that bring their own.
push_bytes_mut_double(inner, bytes, debug) ==
    LET r == find_nul_byte(bytes)
        e == extend_slice(inner, bytes, debug)
    IN IF r # None /\ r[1] + 1 # Len(bytes)
       THEN [ret |-> "InteriorNulByte", inner |-> inner]
       ELSE [ret |-> IF e.panic THEN "panic" ELSE "Ok",
             inner |-> IF e.panic THEN e.inner ELSE e.inner \o <<0>>]

push_bytes(inner, bytes, debug) ==
    LET r == find_nul_byte(bytes)
        e == extend_slice(inner, bytes, debug)
    IN IF r # None /\ r[1] + 1 = Len(bytes)
       THEN [ret |-> IF e.panic THEN "panic" ELSE "Ok", inner |-> e.inner]
       ELSE IF r # None
       THEN [ret |-> "InteriorNulByte", inner |-> inner]
       ELSE [ret |-> IF e.panic THEN "panic" ELSE "Ok",
             inner |-> IF e.panic THEN e.inner ELSE e.inner \o <<0>>]

\* OsStr::as_bytes (OsStrExt): on Unix an OsStr is its bytes.
OsStr_as_bytes(value) == value

\* Mutant: the value is cut at its first 0x00 before it is pushed.
push_mut_truncate(inner, value, debug) ==
    LET r == find_nul_byte(OsStr_as_bytes(value)) IN
    push_bytes(inner,
               IF r = None THEN OsStr_as_bytes(value)
               ELSE SubSeq(OsStr_as_bytes(value), 1, r[1]),
               debug)

push(inner, value, debug) == push_bytes(inner, OsStr_as_bytes(value), debug)

\* Mutant: a pre-terminated vector is rejected like an interior nul.
from_bytes_mut_reject(bytes) ==
    LET r == find_nul_byte(bytes) IN
    IF r # None THEN [ret |-> "InteriorNulByte", inner |-> <<>>]
    ELSE [ret |-> "Ok", inner |-> bytes \o <<0>>]

\* Mutant: a terminator is appended whether or not one is present.
from_bytes_mut_always(bytes) ==
    LET r == find_nul_byte(bytes) IN
    IF r # None /\ r[1] + 1 = Len(bytes) THEN [ret |-> "Ok", inner |-> bytes \o <<0>>]
    ELSE IF r # None THEN [ret |-> "InteriorNulByte", inner |-> <<>>]
    ELSE [ret |-> "Ok", inner |-> bytes \o <<0>>]

\* from_bytes: on Err no UnixString exists; the inner field of the record
\* is then the empty sequence and is not read.
\* Mutant: input without a 0x00 is refused instead of being terminated.
from_bytes_mut_missing(bytes) ==
    LET r == find_nul_byte(bytes) IN
    IF r # None /\ r[1] + 1 = Len(bytes) THEN [ret |-> "Ok", inner |-> bytes]
    ELSE IF r # None THEN [ret |-> "InteriorNulByte", inner |-> <<>>]
    ELSE [ret |-> "MissingNulTerminator", inner |-> <<>>]

\* Mutant: no terminator is appended to an empty input.
from_bytes_mut_empty(bytes) ==
    LET r == find_nul_byte(bytes) IN
    IF bytes = <<>> THEN [ret |-> "Ok", inner |-> <<>>]
    ELSE IF r # None /\ r[1] + 1 = Len(bytes) THEN [ret |-> "Ok", inner |-> bytes]
    ELSE IF r # None THEN [ret |-> "InteriorNulByte", inner |-> <<>>]
    ELSE [ret |-> "Ok", inner |-> bytes \o <<0>>]

from_bytes(bytes) ==
    LET r == find_nul_byte(bytes) IN
    IF r # None /\ r[1] + 1 = Len(bytes) THEN [ret |-> "Ok", inner |-> bytes]
    ELSE IF r # None THEN [ret |-> "InteriorNulByte", inner |-> <<>>]
    ELSE [ret |-> "Ok", inner |-> bytes \o <<0>>]

\* Mutant: a vector with no terminator in it, as Vec::new() gives.
new_mut_vec == <<>>

new == <<0>>

\* Mutant: the terminator is not pushed (the vector starts empty).
with_capacity_mut_empty(capacity) ==
    [inner |-> <<>>, spare |-> [j \in 1 .. capacity + 1 |-> {}]]

\* with_capacity: Vec::with_capacity(capacity + 1) then push(0).  A slot of
\* the spare capacity is the set of bytes a read of it can return: {} while
\* it is uninitialized, {b} once b is stored in it.
with_capacity(capacity) ==
    [inner |-> <<0>>, spare |-> [j \in 1 .. capacity |-> {}]]

\* Mutant: the bytes of the CString without its terminator.
from_cstring_mut_bytes(contents) == contents

\* From<CString>: value.into_bytes_with_nul(); contents are the bytes of the
\* CString before its terminator.
from_cstring(contents) == contents \o <<0>>

Panicked == <<-1>>

\* Mutant: the whole vector is returned, terminator included.
inner_without_nul_terminator_mut_all(inner) == inner

\* &self.inner[0..self.inner.len() - 1].  On an empty vector the range end
\* overflows or is out of range and the call panics: no slice is returned,
\* which the model shows as Panicked, a value that is no byte sequence.
inner_without_nul_terminator(inner) ==
    IF Len(inner) = 0 THEN Panicked ELSE SubSeq(inner, 1, Len(inner) - 1)

as_bytes(inner) == inner_without_nul_terminator(inner)

as_bytes_with_nul(inner) == inner

\* Mutant: the length of the vector, terminator counted.
len_mut_plain(inner) == Len(inner)

len(inner) == wrapping_sub(Len(inner), 1)

len_with_nul(inner) == Len(inner)

\* Mutant: the emptiness of the vector itself.
is_empty_mut_vec(inner) == Len(inner) = 0

is_empty(inner) == inner = <<0>>

capacity(inner, spare) == Len(inner) + Len(spare)


\* <[u8]>::get(0..n): the first n bytes, or None when there are fewer.
slice_get_to(s, n) == IF n <= Len(s) THEN Some(SubSeq(s, 1, n)) ELSE None

\* Mutant: the prefix is taken from the bytes with the terminator.
starts_with_mut_physical(inner, rhs) ==
    LET sub == slice_get_to(as_bytes_with_nul(inner), Len(OsStr_as_bytes(rhs))) IN
    IF sub # None THEN sub[1] = OsStr_as_bytes(rhs) ELSE FALSE

starts_with(inner, rhs) ==
    LET sub == slice_get_to(as_bytes(inner), Len(OsStr_as_bytes(rhs))) IN
    IF sub # None THEN sub[1] = OsStr_as_bytes(rhs) ELSE FALSE


\* A CStr is held as its bytes with the terminator. from_bytes_with_nul
\* accepts a slice whose first 0x00 is its last byte, and nothing else.
CStr_from_bytes_with_nul(bytes) ==
    IF find_nul_byte(bytes) = Some(Len(bytes) - 1) /\ Len(bytes) > 0
    THEN Some(bytes)
    ELSE None

\* CStr::to_bytes: the bytes without the terminator.
CStr_to_bytes(cstr) == SubSeq(cstr, 1, Len(cstr) - 1)

\* CStr::from_ptr: the memory from the pointer through its first 0x00.
CStr_from_ptr(mem) ==
    LET nul == find_nul_byte(mem) IN
    IF nul = None THEN mem ELSE SubSeq(mem, 1, nul[1] + 1)

\* Mutant: the CStr is made from the bytes without the terminator.
as_c_str_mut_logical(inner) ==
    LET r == CStr_from_bytes_with_nul(SubSeq(inner, 1, Len(inner) - 1)) IN
    IF r = None THEN Panicked ELSE r[1]

\* unwrap() of from_bytes_with_nul over the whole vector.
as_c_str(inner) ==
    LET r == CStr_from_bytes_with_nul(inner) IN
    IF r = None THEN Panicked ELSE r[1]

\* The memory a reader of the returned pointer sees.
as_ptr(inner) == as_c_str(inner)

ReplacementChar == 65533

\* CStr::to_string_lossy over the sampled bytes: 0xFF is never valid UTF-8
\* and becomes U+FFFD, the ASCII bytes stay.
to_string_lossy(inner) ==
    IF as_c_str(inner) = Panicked THEN Panicked
    ELSE LET b == CStr_to_bytes(as_c_str(inner)) IN
         [i \in 1 .. Len(b) |-> IF b[i] >= 128 THEN ReplacementChar ELSE b[i]]


\* #[derive(PartialEq, Eq)] on the one field: equality of the two vectors,
\* which is equal lengths and equal bytes at every index.
derive_eq(a, b) == Len(a) = Len(b) /\ \A i \in 1 .. Len(a) : a[i] = b[i]

RECURSIVE slice_cmp_from(_, _, _)
slice_cmp_from(a, b, i) ==
    IF i > Len(a) \/ i > Len(b)
    THEN IF Len(a) < Len(b) THEN "Less"
         ELSE IF Len(a) > Len(b) THEN "Greater" ELSE "Equal"
    ELSE IF a[i] < b[i] THEN "Less"
         ELSE IF a[i] > b[i] THEN "Greater"
         ELSE slice_cmp_from(a, b, i + 1)

\* Mutant: the shorter vector is the smaller one, whatever its bytes.
derive_cmp_mut_shortlex(a, b) ==
    IF Len(a) < Len(b) THEN "Less"
    ELSE IF Len(a) > Len(b) THEN "Greater"
    ELSE slice_cmp_from(a, b, 1)

\* #[derive(PartialOrd, Ord)]: the lexicographic order of the two vectors
\* of unsigned bytes.
derive_cmp(a, b) == slice_cmp_from(a, b, 1)


\* <[u8]>::eq, which str, OsStr and (over to_bytes) CStr equality come to.
slice_eq(a, b) == Len(a) = Len(b) /\ \A i \in 1 .. Len(a) : a[i] = b[i]

str_as_bytes(value) == value

as_os_str(inner) == inner_without_nul_terminator(inner)

as_path(inner) == as_os_str(inner)

Separator == 47

\* Path::components over the sampled bytes: whether the path starts at the
\* root, and the non-empty runs of bytes between separators. Repeated and
\* trailing separators give no component.
RECURSIVE Path_parts(_, _, _)
Path_parts(bytes, i, cur) ==
    IF i > Len(bytes)
    THEN IF cur = <<>> THEN <<>> ELSE <<cur>>
    ELSE IF bytes[i] = Separator
         THEN (IF cur = <<>> THEN <<>> ELSE <<cur>>) \o Path_parts(bytes, i + 1, <<>>)
         ELSE Path_parts(bytes, i + 1, Append(cur, bytes[i]))

Path_components(bytes) ==
    [root |-> Len(bytes) > 0 /\ bytes[1] = Separator,
     parts |-> Path_parts(bytes, 1, <<>>)]

\* Path equality is equality of the components.
Path_eq(a, b) == Path_components(a) = Path_components(b)

\* PartialEq<&str>, PartialEq<&OsStr>, PartialEq<&CStr>, PartialEq<&Path>
\* for UnixString.
eq_str(inner, other) == slice_eq(as_bytes(inner), str_as_bytes(other))

eq_os_str(inner, other) == slice_eq(as_os_str(inner), other)

eq_c_str(inner, other) ==
    slice_eq(CStr_to_bytes(as_c_str(inner)), CStr_to_bytes(other))

eq_path(inner, other) == Path_eq(as_path(inner), other)

\* PartialEq<UnixString> for the four views: each is `other == self`.
str_eq(value, inner) == eq_str(inner, value)

os_str_eq(value, inner) == eq_os_str(inner, value)

c_str_eq(value, inner) == eq_c_str(inner, value)

path_eq(value, inner) == eq_path(inner, value)


\* A PathBuf, an OsString and a String each own their bytes; into_os_string,
\* into_vec and into_bytes hand over those bytes as they are.
PathBuf_into_os_string(value) == value

OsString_into_vec(value) == value

String_into_bytes(value) == value

\* TryFrom<Vec<u8>>, TryFrom<String>, TryFrom<OsString>, TryFrom<PathBuf>.
try_from_vec(bytes) == from_bytes(bytes)

try_from_string(value) == from_bytes(String_into_bytes(value))

\* Mutant: a 0x00 anywhere is refused, the last byte included.
try_from_os_string_mut_strict(value) ==
    IF find_nul_byte(OsString_into_vec(value)) # None
    THEN [ret |-> "InteriorNulByte", inner |-> <<>>]
    ELSE from_bytes(OsString_into_vec(value))

try_from_os_string(value) == from_bytes(OsString_into_vec(value))

try_from_pathbuf(value) == try_from_os_string(PathBuf_into_os_string(value))

from_pathbuf(pathbuf) == try_from_pathbuf(pathbuf)

from_string(string) == try_from_string(string)

from_os_string(os_string) == try_from_os_string(os_string)


\* Mutant: the first element leaves, whatever the index.
Vec_remove_mut_first(v, index) ==
    IF index < 0 \/ index >= Len(v) THEN Panicked
    ELSE SubSeq(v, 2, Len(v))

\* Vec::remove(index): the element at index (from 0) leaves and the ones
\* after it move down; an index out of bounds panics.
Vec_remove(v, index) ==
    IF index < 0 \/ index >= Len(v) THEN Panicked
    ELSE [i \in 1 .. Len(v) - 1 |-> IF i <= index THEN v[i] ELSE v[i + 1]]

into_bytes_with_nul(inner) == inner

\* Mutant: the terminator stays in the returned bytes.
into_bytes_mut_keep(inner) == inner

\* bytes.remove(bytes.len() - 1)
into_bytes(inner) == Vec_remove(inner, Len(inner) - 1)

\* A CString is held as its bytes before the terminator, which
\* from_vec_unchecked adds to the vector it is given.
CString_from_vec_unchecked(bytes) == bytes

OsString_from_vec(bytes) == bytes

PathBuf_from(os_string) == os_string

\* From<UnixString> for CString, OsString, PathBuf.
into_cstring(inner) ==
    IF into_bytes(inner) = Panicked THEN Panicked
    ELSE CString_from_vec_unchecked(into_bytes(inner))

into_os_string(inner) ==
    IF into_bytes(inner) = Panicked THEN Panicked
    ELSE OsString_from_vec(into_bytes(inner))

into_pathbuf(inner) ==
    IF into_os_string(inner) = Panicked THEN Panicked
    ELSE PathBuf_from(into_os_string(inner))


\* Mutant: the memory is pushed whole, the bytes after its first 0x00 too.
extend_from_ptr_mut_all(inner, mem, debug) == push_bytes(inner, mem, debug)

\* extend_from_ptr: the bytes from the pointer up to the first 0x00 go to
\* push_bytes.
extend_from_ptr(inner, mem, debug) ==
    push_bytes(inner, CStr_to_bytes(CStr_from_ptr(mem)), debug)


\* std::str::from_utf8. The width of a sequence is read from its first byte
\* (0 for a byte that starts none), then the bytes after it are matched
\* against the ranges that first byte allows; valid_up_to is the count of
\* bytes decoded before the first sequence that fails.
utf8_char_width(b) ==
    IF b <= 127 THEN 1
    ELSE IF b >= 194 /\ b <= 223 THEN 2
    ELSE IF b >= 224 /\ b <= 239 THEN 3
    ELSE IF b >= 240 /\ b <= 244 THEN 4
    ELSE 0

utf8_is_cont(b) == b >= 128 /\ b <= 191

utf8_second_ok(first, second) ==
    IF first = 224 THEN second >= 160 /\ second <= 191
    ELSE IF first = 237 THEN second >= 128 /\ second <= 159
    ELSE IF first = 240 THEN second >= 144 /\ second <= 191
    ELSE IF first = 244 THEN second >= 128 /\ second <= 143
    ELSE utf8_is_cont(second)

RECURSIVE run_utf8_validation(_, _)
run_utf8_validation(v, index) ==
    IF index >= Len(v) THEN index
    ELSE LET first == v[index + 1]
             w == utf8_char_width(first)
         IN IF w = 0 \/ index + w > Len(v) THEN index
            ELSE IF w >= 2 /\ ~utf8_second_ok(first, v[index + 2]) THEN index
            ELSE IF w >= 3 /\ ~utf8_is_cont(v[index + 3]) THEN index
            ELSE IF w = 4 /\ ~utf8_is_cont(v[index + 4]) THEN index
            ELSE run_utf8_validation(v, index + w)

from_utf8(v) ==
    LET n == run_utf8_validation(v, 0) IN
    IF n = Len(v)
    THEN [ok |-> TRUE, str |-> v, valid_up_to |-> n]
    ELSE [ok |-> FALSE, str |-> <<>>, valid_up_to |-> n]

\* Mutant: the whole vector is decoded, as `as_str` of the unbuilt older
\* file unixstring.rs does.
to_str_mut_physical(inner) == from_utf8(inner)

to_str(inner) == from_utf8(inner_without_nul_terminator(inner))


\* CStr::to_owned: the CString of the same bytes.
CStr_to_owned(cstr) == CStr_to_bytes(cstr)

\* Mutant: every byte of the memory is taken, past the first 0x00 too.
from_ptr_mut_all(mem) == mem

\* CStr::from_ptr(ptr).to_owned().into()
from_ptr(mem) == from_cstring(CStr_to_owned(CStr_from_ptr(mem)))


\* push_bytes statement by statement. A position is the statement about to
\* run, with the match arm it is in: the match on find_nul_byte(bytes), then
\* in extend_slice the remove with its debug_assert and the
\* extend_from_slice, then in the None arm the extend with the terminator.
\* The positions "Ok", "InteriorNulByte" and "panic" are the ways out.
Running ==
    {"match", "Some:remove", "None:remove",
     "Some:extend_from_slice", "None:extend_from_slice", "None:extend"}

\* Mutant: the terminator is removed first and the bytes are scanned once
\* they are appended.
push_bytes_step_mut_late(at, inner, bytes, debug) ==
    LET r == find_nul_byte(bytes) IN
    CASE at = "match" -> [at |-> "None:remove", inner |-> inner]
      [] at \in {"Some:remove", "None:remove"} ->
            IF Len(inner) = 0 THEN [at |-> "panic", inner |-> inner]
            ELSE [at |-> "None:extend_from_slice",
                  inner |-> Vec_remove(inner, Len(inner) - 1)]
      [] at \in {"Some:extend_from_slice", "None:extend_from_slice"} ->
            IF r # None /\ r[1] + 1 = Len(bytes)
            THEN [at |-> "Ok", inner |-> inner \o bytes]
            ELSE IF r # None
            THEN [at |-> "InteriorNulByte", inner |-> inner \o bytes]
            ELSE [at |-> "None:extend", inner |-> inner \o bytes]
      [] OTHER -> [at |-> "Ok", inner |-> inner \o <<0>>]

push_bytes_step(at, inner, bytes, debug) ==
    LET r == find_nul_byte(bytes) IN
    CASE at = "match" ->
            IF r # None /\ r[1] + 1 = Len(bytes)
            THEN [at |-> "Some:remove", inner |-> inner]
            ELSE IF r # None
            THEN [at |-> "InteriorNulByte", inner |-> inner]
            ELSE [at |-> "None:remove", inner |-> inner]
      [] at \in {"Some:remove", "None:remove"} ->
            IF Len(inner) = 0 THEN [at |-> "panic", inner |-> inner]
            ELSE IF debug /\ inner[Len(inner)] # 0
            THEN [at |-> "panic", inner |-> Vec_remove(inner, Len(inner) - 1)]
            ELSE [at |-> IF at = "Some:remove" THEN "Some:extend_from_slice"
                         ELSE "None:extend_from_slice",
                  inner |-> Vec_remove(inner, Len(inner) - 1)]
      [] at = "Some:extend_from_slice" -> [at |-> "Ok", inner |-> inner \o bytes]
      [] at = "None:extend_from_slice" -> [at |-> "None:extend", inner |-> inner \o bytes]
      [] OTHER -> [at |-> "Ok", inner |-> inner \o <<0>>]

\* ------------------------------------------------- the allocation of a Vec
\* The allocation as one sequence of slots: the elements, then the spare
\* capacity.
Mem(inner, spare) ==
    [i \in 1 .. Len(inner) + Len(spare) |->
        IF i <= Len(inner) THEN {inner[i]} ELSE spare[i - Len(inner)]]

\* Spare capacity once the vector holds newInner: the old slots past the new
\* length when newInner fits the allocation, none after a reallocation (the
\* new allocation is modelled with exactly the capacity required).
Respare(inner, spare, newInner) ==
    IF Len(newInner) <= Len(inner) + Len(spare)
    THEN [j \in 1 .. Len(inner) + Len(spare) - Len(newInner) |->
              Mem(inner, spare)[Len(newInner) + j]]
    ELSE <<>>

\* Mutant: the byte lands one slot further than the offset given.
ptr_write_mut_shift(inner, spare, idx, byte) ==
    IF idx + 1 < Len(inner)
    THEN [inner |-> [inner EXCEPT ![idx + 2] = byte], spare |-> spare]
    ELSE IF idx + 1 < Len(inner) + Len(spare)
    THEN [inner |-> inner, spare |-> [spare EXCEPT ![idx + 2 - Len(inner)] = {byte}]]
    ELSE [inner |-> inner, spare |-> spare]

\* as_mut_ptr().add(idx).write(byte), idx inside the allocation.
ptr_write(inner, spare, idx, byte) ==
    IF idx < Len(inner)
    THEN [inner |-> [inner EXCEPT ![idx + 1] = byte], spare |-> spare]
    ELSE [inner |-> inner, spare |-> [spare EXCEPT ![idx + 1 - Len(inner)] = {byte}]]

\* The values a read of a slot can return: any byte when uninitialized.
ReadSlot(slot) == IF slot = {} THEN Byte ELSE slot

\* Mutant: the length is forced to one less than asked.
set_len_mut_short(inner, spare, new_len) ==
    IF new_len = 0 THEN {<<>>}
    ELSE {s \in [1 .. new_len - 1 -> Byte] :
             \A i \in 1 .. new_len - 1 : s[i] \in ReadSlot(Mem(inner, spare)[i])}

\* Vec::set_len(new_len), new_len <= capacity: the set of vectors that can
\* be observed afterwards.
set_len(inner, spare, new_len) ==
    {s \in [1 .. new_len -> Byte] :
        \A i \in 1 .. new_len : s[i] \in ReadSlot(Mem(inner, spare)[i])}

\* ------------------------------------------------------------------ state
VARIABLES
    inner,             \* UnixString::inner: the elements of the Vec<u8>
    spare,             \* the slots of its allocation past its length
    op,                \* the last operation
    arg,               \* its arguments, as a tuple
    pre,               \* inner before it (push, push_bytes, validate, pointer
                       \* write; <<>> after the other operations)
    ret,               \* its result
    safe,              \* only safe operations since a safe construction
    written            \* per slot, the byte last written through as_mut_ptr
                       \* since with_capacity (<<>> when not so constructed)

vars == <<inner, spare, op, arg, pre, ret, safe, written>>

Init ==
    /\ inner = new
    /\ spare = <<>>
    /\ op = "new"
    /\ arg = <<>>
    /\ pre = <<>>
    /\ ret = "Ok"
    /\ safe = TRUE
    /\ written = <<>>

\* The builds (debug assertions on or off) whose outcomes can differ for a
\* push on this vector: both when the byte extend_slice removes is not 0.
Builds(v) ==
    IF Len(v) > 0 /\ v[Len(v)] # 0 THEN BOOLEAN ELSE {FALSE}

\* new() is called at any point (the program drops its string for a fresh
\* one); every other constructor ignores the string it replaces, so it is
\* applied in place of a fresh new() only.
New ==
    /\ inner' = new
    /\ spare' = <<>>
    /\ op' = "new" /\ arg' = <<>> /\ pre' = <<>> /\ ret' = "Ok"
    /\ safe' = TRUE
    /\ written' = <<>>

WithCapacity ==
    \E n \in 0 .. MaxCap :
        /\ op = "new"
        /\ inner' = with_capacity(n).inner
        /\ spare' = with_capacity(n).spare
        /\ op' = "with_capacity" /\ arg' = <<n>> /\ pre' = <<>> /\ ret' = "Ok"
        /\ safe' = TRUE
        /\ written' = [j \in 1 .. Len(inner') + Len(spare') |-> {}]

\* On Err the caller holds no new UnixString: the current one stays.
FromBytes ==
    \E bytes \in BoundedSeq(Byte, MaxArg) :
        LET r == from_bytes(bytes) IN
        /\ op = "new"
        /\ op' = "from_bytes" /\ arg' = bytes /\ pre' = <<>> /\ ret' = r.ret
        /\ IF r.ret = "Ok"
           THEN /\ inner' = r.inner
                /\ spare' = <<>>
                /\ safe' = TRUE
                /\ written' = <<>>
           ELSE UNCHANGED <<inner, spare, safe, written>>

\* A CString with an interior nul exists only through the unsafe
\* CString::from_vec_unchecked.
FromCString ==
    \E contents \in BoundedSeq(Byte, MaxArg) :
        /\ op = "new"
        /\ inner' = from_cstring(contents)
        /\ spare' = <<>>
        /\ op' = "from_cstring" /\ arg' = contents /\ pre' = <<>> /\ ret' = "Ok"
        /\ safe' = (\A i \in 1 .. Len(contents) : contents[i] # 0)
        /\ written' = <<>>

PushBytes ==
    \E bytes \in BoundedSeq(Byte, MaxArg), debug \in Builds(inner) :
        LET r == push_bytes(inner, bytes, debug) IN
        /\ Len(r.inner) <= MaxLen
        /\ inner' = r.inner
        /\ spare' = Respare(inner, spare, r.inner)
        /\ op' = "push_bytes" /\ arg' = bytes /\ pre' = inner /\ ret' = r.ret
        /\ written' = <<>>
        /\ UNCHANGED safe

\* push is called with text (a &str), as the tests and the documentation do.
\* The values pushed as text: ASCII text, alone or behind a leading 0x00.
TextValues ==
    {s \in BoundedSeq(TextByte, MaxArg) : \A i \in 2 .. Len(s) : s[i] # 0}

Push ==
    \E value \in TextValues, debug \in Builds(inner) :
        LET r == push(inner, value, debug) IN
        /\ Len(r.inner) <= MaxLen
        /\ inner' = r.inner
        /\ spare' = Respare(inner, spare, r.inner)
        /\ op' = "push" /\ arg' = value /\ pre' = inner /\ ret' = r.ret
        /\ written' = <<>>
        /\ UNCHANGED safe

Validate ==
    /\ op' = "validate" /\ arg' = <<>> /\ pre' = inner /\ ret' = validate(inner)
    /\ UNCHANGED <<inner, spare, safe, written>>

\* A write through the pointer returned by as_mut_ptr.
PtrWrite ==
    \E idx \in 0 .. capacity(inner, spare) - 1, byte \in Byte :
        LET w == ptr_write(inner, spare, idx, byte) IN
        /\ inner' = w.inner
        /\ spare' = w.spare
        /\ op' = "ptr_write" /\ arg' = <<idx, byte>> /\ pre' = inner /\ ret' = "Ok"
        /\ safe' = FALSE
        /\ written' = IF written = <<>> THEN written
                      ELSE [written EXCEPT ![idx + 1] = {byte}]

SetLen ==
    \E new_len \in 0 .. capacity(inner, spare) :
        \E s \in set_len(inner, spare, new_len) :
            /\ inner' = s
            /\ spare' = Respare(inner, spare, s)
            /\ op' = "set_len" /\ arg' = <<new_len>> /\ pre' = <<>> /\ ret' = "Ok"
            /\ safe' = FALSE
            /\ UNCHANGED written

TryFromVec ==
    \E value \in BoundedSeq(Byte, MaxArg) :
        LET r == try_from_vec(value) IN
        /\ op = "new"
        /\ op' = "try_from_vec" /\ arg' = value /\ pre' = <<>> /\ ret' = r.ret
        /\ IF r.ret = "Ok"
           THEN /\ inner' = r.inner
                /\ spare' = <<>>
                /\ safe' = TRUE
                /\ written' = <<>>
           ELSE UNCHANGED <<inner, spare, safe, written>>

FromString ==
    \E value \in BoundedSeq(TextByte, MaxArg) :
        LET r == from_string(value) IN
        /\ op = "new"
        /\ op' = "from_string" /\ arg' = value /\ pre' = <<>> /\ ret' = r.ret
        /\ IF r.ret = "Ok"
           THEN /\ inner' = r.inner
                /\ spare' = <<>>
                /\ safe' = TRUE
                /\ written' = <<>>
           ELSE UNCHANGED <<inner, spare, safe, written>>

FromOsString ==
    \E value \in BoundedSeq(Byte, MaxArg) :
        LET r == from_os_string(value) IN
        /\ op = "new"
        /\ op' = "from_os_string" /\ arg' = value /\ pre' = <<>> /\ ret' = r.ret
        /\ IF r.ret = "Ok"
           THEN /\ inner' = r.inner
                /\ spare' = <<>>
                /\ safe' = TRUE
                /\ written' = <<>>
           ELSE UNCHANGED <<inner, spare, safe, written>>

FromPathBuf ==
    \E value \in BoundedSeq(Byte, MaxArg) :
        LET r == from_pathbuf(value) IN
        /\ op = "new"
        /\ op' = "from_pathbuf" /\ arg' = value /\ pre' = <<>> /\ ret' = r.ret
        /\ IF r.ret = "Ok"
           THEN /\ inner' = r.inner
                /\ spare' = <<>>
                /\ safe' = TRUE
                /\ written' = <<>>
           ELSE UNCHANGED <<inner, spare, safe, written>>

\* The memory behind the pointer is read up to its first 0x00 only, so it is
\* given as the bytes before that 0x00 and the 0x00.
ExtendFromPtr ==
    \E contents \in BoundedSeq(TextByte \ {0}, MaxArg), debug \in Builds(inner) :
        LET mem == contents \o <<0>>
            r == extend_from_ptr(inner, mem, debug)
        IN
        /\ Len(r.inner) <= MaxLen
        /\ inner' = r.inner
        /\ spare' = Respare(inner, spare, r.inner)
        /\ op' = "extend_from_ptr" /\ arg' = mem /\ pre' = inner /\ ret' = r.ret
        /\ written' = <<>>
        /\ UNCHANGED safe

\* The memory behind the pointer, as far as it is looked at: it holds a 0x00
\* and may hold bytes after it.
FromPtr ==
    /\ op = "new"
    /\ \E mem \in {m \in BoundedSeq(Byte, MaxLen) : find_nul_byte(m) # None} :
        /\ inner' = from_ptr(mem)
        /\ spare' = <<>>
        /\ op' = "from_ptr" /\ arg' = mem /\ pre' = <<>> /\ ret' = "Ok"
        /\ safe' = TRUE
        /\ written' = <<>>

Next ==
    \/ New
    \/ WithCapacity
    \/ FromBytes
    \/ FromCString
    \/ PushBytes
    \/ Push
    \/ Validate
    \/ PtrWrite
    \/ SetLen
    \/ TryFromVec
    \/ FromString
    \/ FromOsString
    \/ FromPathBuf
    \/ ExtendFromPtr
    \/ FromPtr

Spec == Init /\ [][Next]_vars


\* ------------------------------------------------- views and comparisons
\* The read-only operations take a string and a second operand and change
\* nothing, so each is applied once to a string as from_bytes made it: every
\* valid content within the bounds is such a string.
InitViews ==
    \E bytes \in BoundedSeq(Utf8Byte, MaxArg) :
        /\ from_bytes(bytes).ret = "Ok"
        /\ inner = from_bytes(bytes).inner
        /\ spare = <<>>
        /\ op = "from_bytes"
        /\ arg = bytes
        /\ pre = <<>>
        /\ ret = "Ok"
        /\ safe = TRUE
        /\ written = <<>>

StartsWith ==
    \E rhs \in BoundedSeq(Byte, MaxLen) :
        /\ op = "from_bytes"
        /\ op' = "starts_with" /\ arg' = rhs /\ pre' = inner
        /\ ret' = starts_with(inner, rhs)
        /\ UNCHANGED <<inner, spare, safe, written>>

\* The contents a second string can have.
ValidInner ==
    {from_bytes(bytes).inner :
        bytes \in {b \in BoundedSeq(Byte, MaxArg) : from_bytes(b).ret = "Ok"}}

Compare ==
    \E other \in ValidInner :
        /\ op = "from_bytes"
        /\ op' = "cmp" /\ arg' = other /\ pre' = inner
        /\ ret' = [eq |-> derive_eq(inner, other), ord |-> derive_cmp(inner, other)]
        /\ UNCHANGED <<inner, spare, safe, written>>

EqStr ==
    \E value \in BoundedSeq(TextByte, MaxLen) :
        /\ op = "from_bytes"
        /\ op' = "eq_str" /\ arg' = str_as_bytes(value) /\ pre' = inner
        /\ ret' = [fwd |-> eq_str(inner, value), rev |-> str_eq(value, inner)]
        /\ UNCHANGED <<inner, spare, safe, written>>

EqOsStr ==
    \E value \in BoundedSeq(Byte, MaxLen) :
        /\ op = "from_bytes"
        /\ op' = "eq_os_str" /\ arg' = value /\ pre' = inner
        /\ ret' = [fwd |-> eq_os_str(inner, value), rev |-> os_str_eq(value, inner)]
        /\ UNCHANGED <<inner, spare, safe, written>>

\* A CStr view holds no 0x00 before its terminator.
EqCStr ==
    \E bytes \in BoundedSeq(Byte \ {0}, MaxLen) :
        LET value == bytes \o <<0>> IN
        /\ op = "from_bytes"
        /\ op' = "eq_c_str" /\ arg' = CStr_to_bytes(value) /\ pre' = inner
        /\ ret' = [fwd |-> eq_c_str(inner, value), rev |-> c_str_eq(value, inner)]
        /\ UNCHANGED <<inner, spare, safe, written>>

EqPath ==
    \E value \in BoundedSeq(PathByte, MaxLen) :
        /\ op = "from_bytes"
        /\ op' = "eq_path" /\ arg' = value /\ pre' = inner
        /\ ret' = [fwd |-> eq_path(inner, value), rev |-> path_eq(value, inner)]
        /\ UNCHANGED <<inner, spare, safe, written>>

ToStr ==
    /\ op = "from_bytes"
    /\ op' = "to_str" /\ arg' = <<>> /\ pre' = inner
    /\ ret' = to_str(inner)
    /\ UNCHANGED <<inner, spare, safe, written>>

\* The byte sequences push_bytes accepts: no 0x00 before the last byte.
Accepted == {b \in BoundedSeq(Byte, MaxArg) : from_bytes(b).ret = "Ok"}

\* Two calls of push_bytes, one after the other, on the same string.
PushBytesTwice ==
    /\ op = "from_bytes"
    /\ \E s1 \in Accepted, s2 \in Accepted, debug \in Builds(inner) :
        LET r1 == push_bytes(inner, s1, debug)
            r2 == push_bytes(r1.inner, s2, debug)
        IN
        /\ op' = "push_bytes_twice" /\ arg' = <<s1, s2>> /\ pre' = inner
        /\ inner' = r2.inner
        /\ ret' = <<r1.ret, r2.ret>>
        /\ UNCHANGED <<spare, safe, written>>

\* extend_from_ptr with memory that goes on after its first 0x00.
ExtendFromMemory ==
    /\ op = "from_bytes"
    /\ \E mem \in {m \in BoundedSeq(Byte, MaxLen) : find_nul_byte(m) # None},
       debug \in Builds(inner) :
        LET r == extend_from_ptr(inner, mem, debug) IN
        /\ op' = "extend_from_ptr" /\ arg' = mem /\ pre' = inner
        /\ inner' = r.inner
        /\ ret' = r.ret
        /\ UNCHANGED <<spare, safe, written>>

NextViews ==
    \/ StartsWith
    \/ Compare
    \/ EqStr
    \/ EqOsStr
    \/ EqCStr
    \/ EqPath
    \/ ToStr
    \/ PushBytesTwice
    \/ ExtendFromMemory

SpecViews == InitViews /\ [][NextViews]_vars



\* ------------------------------------------- push_bytes, step by step
\* The string is the one new() makes, or a vector as pointer writes and
\* set_len can leave it; push_bytes is then called any number of times and
\* runs one statement at a time, ret holding its position until it returns.
InitSteps ==
    /\ \/ inner = new /\ op = "new" /\ safe = TRUE
       \/ /\ inner \in BoundedSeq(Byte, MaxCap + 1)
          /\ op = "set_len" /\ safe = FALSE
    /\ spare = <<>>
    /\ arg = <<>>
    /\ pre = <<>>
    /\ ret = "Ok"
    /\ written = <<>>

CallPushBytes ==
    \E bytes \in BoundedSeq(Byte, MaxArg) :
        /\ ret \in {"Ok", "InteriorNulByte"}
        /\ Len(inner) + Len(bytes) <= MaxLen + 1
        /\ op' = "push_bytes" /\ arg' = bytes /\ pre' = inner /\ ret' = "match"
        /\ UNCHANGED <<inner, spare, safe, written>>

Match ==
    \E position \in {"match"}, debug \in Builds(inner) :
        LET s == push_bytes_step(position, inner, arg, debug) IN
        /\ op = "push_bytes" /\ ret = position
        /\ inner' = s.inner
        /\ ret' = s.at
        /\ UNCHANGED <<spare, op, arg, pre, safe, written>>

Remove ==
    \E position \in {"Some:remove", "None:remove"}, debug \in Builds(inner) :
        LET s == push_bytes_step(position, inner, arg, debug) IN
        /\ op = "push_bytes" /\ ret = position
        /\ inner' = s.inner
        /\ ret' = s.at
        /\ UNCHANGED <<spare, op, arg, pre, safe, written>>

ExtendFromSlice ==
    \E position \in {"Some:extend_from_slice", "None:extend_from_slice"}, debug \in Builds(inner) :
        LET s == push_bytes_step(position, inner, arg, debug) IN
        /\ op = "push_bytes" /\ ret = position
        /\ inner' = s.inner
        /\ ret' = s.at
        /\ UNCHANGED <<spare, op, arg, pre, safe, written>>

ExtendNul ==
    \E position \in {"None:extend"}, debug \in Builds(inner) :
        LET s == push_bytes_step(position, inner, arg, debug) IN
        /\ op = "push_bytes" /\ ret = position
        /\ inner' = s.inner
        /\ ret' = s.at
        /\ UNCHANGED <<spare, op, arg, pre, safe, written>>

NextSteps ==
    \/ CallPushBytes
    \/ Match
    \/ Remove
    \/ ExtendFromSlice
    \/ ExtendNul

SpecSteps == InitSteps /\ [][NextSteps]_vars

\* ------------------------------------------------------------------ claims
\* Vocabulary of the claims, stated on byte sequences without the code's scan.
NoNul(s) == \A i \in 1 .. Len(s) : s[i] # 0

\* A 0x00 at an index other than the last.
InteriorNul(s) == \E i \in 1 .. Len(s) - 1 : s[i] = 0

\* The first (and only) 0x00 is at the last index.
NulOnlyLast(s) ==
    /\ Len(s) > 0
    /\ s[Len(s)] = 0
    /\ \A i \in 1 .. Len(s) - 1 : s[i] # 0

Logical(s) == SubSeq(s, 1, Len(s) - 1)

StripNul(s) == IF Len(s) > 0 /\ s[Len(s)] = 0 THEN SubSeq(s, 1, Len(s) - 1) ELSE s

\* C1: after a safe construction followed by any push / push_bytes calls,
\* successful or failed, the inner buffer is non-empty, its last byte is 0x00,
\* no earlier byte is 0x00, and validate() returns Ok.
C1_InvariantPreserved ==
    safe =>
        /\ inner # <<>>
        /\ inner[Len(inner)] = 0
        /\ \A i \in 1 .. Len(inner) - 1 : inner[i] # 0
        /\ validate(inner) = "Ok"

C1_Witness ==
    /\ safe
    /\ op = "push_bytes" /\ ret = "Ok"
    /\ Len(pre) > 1
    /\ Len(inner) > Len(pre)

\* C2: push_bytes of a sequence with a 0x00 at an index other than its last,
\* on a valid buffer, returns Err(InteriorNulByte) and leaves the physical
\* bytes as they were.
C2_PushFailureAtomic ==
    (op = "push_bytes" /\ NulOnlyLast(pre) /\ InteriorNul(arg)) =>
        /\ ret = "InteriorNulByte"
        /\ as_bytes_with_nul(inner) = pre

C2_Witness ==
    /\ op = "push_bytes" /\ NulOnlyLast(pre) /\ InteriorNul(arg)
    /\ Len(pre) > 1
    /\ ret = "InteriorNulByte"

\* C3: push_bytes of a sequence S without interior 0x00, on a valid buffer
\* with logical bytes L, returns Ok and leaves the physical bytes L, then S
\* without its trailing 0x00 if it has one, then one 0x00; len() grows by
\* the length of what was appended.
C3_PushAppends ==
    (op = "push_bytes" /\ NulOnlyLast(pre) /\ ~InteriorNul(arg)) =>
        /\ ret = "Ok"
        /\ as_bytes_with_nul(inner) = Logical(pre) \o StripNul(arg) \o <<0>>
        /\ len(inner) = len(pre) + Len(StripNul(arg))

C3_Witness ==
    /\ op = "push_bytes" /\ NulOnlyLast(pre) /\ ~InteriorNul(arg)
    /\ Len(pre) > 1
    /\ Len(arg) > 1 /\ arg[Len(arg)] = 0
    /\ ret = "Ok"

\* C4: from_bytes(S) does not panic and its outcome follows the position of
\* the first 0x00 of S: none, Ok with one terminator appended; at the last
\* index, Ok with S unchanged; earlier, Err(InteriorNulByte).
C4_FromBytesOutcome ==
    op = "from_bytes" =>
        /\ ret # "panic"
        /\ NoNul(arg) => (ret = "Ok" /\ inner = arg \o <<0>>)
        /\ NulOnlyLast(arg) => (ret = "Ok" /\ inner = arg)
        /\ InteriorNul(arg) => ret = "InteriorNulByte"

C4_Witness ==
    /\ op = "from_bytes"
    /\ NulOnlyLast(arg) /\ Len(arg) > 1
    /\ ret = "Ok"

\* C5: for S without any 0x00, from_bytes(S) succeeds, as_bytes() is S and
\* as_bytes_with_nul() is S followed by a single 0x00.
C5_FromBytesRoundTrip ==
    (op = "from_bytes" /\ NoNul(arg)) =>
        /\ ret = "Ok"
        /\ as_bytes(inner) = arg
        /\ as_bytes_with_nul(inner) = arg \o <<0>>

C5_Witness ==
    /\ op = "from_bytes" /\ NoNul(arg)
    /\ Len(arg) = MaxArg
    /\ ret = "Ok"

\* C6: for S without any 0x00, from_bytes(S) and from_bytes(S ++ [0x00]) both
\* succeed, with the same logical bytes and the same physical bytes.
C6_FromBytesRetermination ==
    (op = "from_bytes" /\ NoNul(arg)) =>
        LET t == from_bytes(arg \o <<0>>) IN
        /\ ret = "Ok"
        /\ t.ret = "Ok"
        /\ as_bytes_with_nul(t.inner) = as_bytes_with_nul(inner)
        /\ as_bytes(t.inner) = as_bytes(inner)

C6_Witness ==
    /\ op = "from_bytes" /\ NoNul(arg)
    /\ Len(arg) > 0
    /\ from_bytes(arg \o <<0>>).ret = "Ok"
    /\ inner = arg \o <<0>>

\* C7: whatever the inner buffer holds, the empty buffer included, validate()
\* returns Ok exactly when the first 0x00 is at the last index,
\* Err(InteriorNulByte) exactly when a 0x00 is at an earlier index, and
\* Err(MissingNulTerminator) exactly when there is no 0x00.
C7_ValidateClassifies ==
    op = "validate" =>
        /\ ret = "Ok" <=> NulOnlyLast(inner)
        /\ ret = "InteriorNulByte" <=> InteriorNul(inner)
        /\ ret = "MissingNulTerminator" <=> NoNul(inner)

C7_Witness ==
    /\ op = "validate"
    /\ inner = <<>>
    /\ ret = "MissingNulTerminator"

\* C8: the buffer made by new(), and by with_capacity(n) for every n, has
\* logical length 0, physical length 1, logical bytes [], physical bytes [0],
\* and is_empty() is true.
C8_EmptyBuffer ==
    op \in {"new", "with_capacity"} =>
        /\ len(inner) = 0
        /\ len_with_nul(inner) = 1
        /\ as_bytes(inner) = <<>>
        /\ as_bytes_with_nul(inner) = <<0>>
        /\ is_empty(inner)

C8_Witness ==
    /\ op = "with_capacity" /\ arg = <<0>>
    /\ is_empty(inner)

\* The byte held by a slot that was written.
SlotByte(slot) == CHOOSE b \in slot : TRUE

\* The first k slots were all written through the pointer, and the only 0x00
\* among them is the last.
WroteTerminated(k) ==
    /\ written # <<>>
    /\ k >= 1
    /\ \A i \in 1 .. k : written[i] # {}
    /\ \A i \in 1 .. k : (0 \in written[i]) <=> (i = k)

\* C9: after with_capacity(n), k <= n + 1 bytes written through as_mut_ptr()
\* from offset 0, the only 0x00 being the last, and set_len(k): validate()
\* returns Ok and the logical bytes are the first k - 1 bytes written.
C9_PtrWriteSetLen ==
    (op = "set_len" /\ WroteTerminated(arg[1])) =>
        /\ validate(inner) = "Ok"
        /\ as_bytes(inner) = [i \in 1 .. arg[1] - 1 |-> SlotByte(written[i])]

C9_Witness ==
    /\ op = "set_len" /\ WroteTerminated(arg[1])
    /\ arg[1] = MaxCap + 1
    /\ arg[1] > 1
    /\ validate(inner) = "Ok"

\* C10: after a write through as_mut_ptr() into a valid buffer, validate()
\* names the broken invariant: Err(InteriorNulByte) after a 0x00 written at
\* an index below len(), Err(MissingNulTerminator) after the terminator is
\* overwritten with a non-zero byte (the length staying as it was).
C10_ValidateAfterPtrWrite ==
    (op = "ptr_write" /\ NulOnlyLast(pre)) =>
        /\ (arg[2] = 0 /\ arg[1] < len(pre)) => validate(inner) = "InteriorNulByte"
        /\ (arg[2] # 0 /\ arg[1] = len(pre)) => validate(inner) = "MissingNulTerminator"

C10_Witness ==
    /\ op = "ptr_write" /\ NulOnlyLast(pre)
    /\ Len(pre) > 2
    /\ arg[2] = 0 /\ arg[1] < len(pre)
    /\ validate(inner) = "InteriorNulByte"

C10_WitnessTerminator ==
    /\ op = "ptr_write" /\ NulOnlyLast(pre)
    /\ Len(pre) > 1
    /\ arg[2] # 0 /\ arg[1] = len(pre)
    /\ validate(inner) = "MissingNulTerminator"


IsPrefix(r, s) == Len(r) <= Len(s) /\ \A i \in 1 .. Len(r) : r[i] = s[i]

\* C11: on a valid buffer starts_with(R) is true exactly when R is a prefix
\* of the logical bytes: true for the empty R and for the whole logical
\* content, false for any longer R, the physical bytes included.
C11_StartsWithPrefix ==
    (op = "starts_with" /\ NulOnlyLast(inner)) =>
        /\ ret <=> IsPrefix(arg, Logical(inner))
        /\ arg = <<>> => ret
        /\ arg = Logical(inner) => ret
        /\ Len(arg) > Len(Logical(inner)) => ~ret
        /\ arg = inner => ~ret

C11_Witness ==
    /\ op = "starts_with" /\ NulOnlyLast(inner)
    /\ Len(inner) > 1
    /\ arg = inner
    /\ ~ret


\* C12: in every state reached through safe constructors and push /
\* push_bytes, as_c_str(), as_ptr() and to_string_lossy() do not panic, and
\* the C string read from as_ptr() up to its first 0x00 is the logical bytes.
C12_AsCStrNeverPanics ==
    safe =>
        /\ as_c_str(inner) # Panicked
        /\ as_ptr(inner) # Panicked
        /\ to_string_lossy(inner) # Panicked
        /\ CStr_to_bytes(CStr_from_ptr(as_ptr(inner))) = Logical(inner)

C12_Witness ==
    /\ safe
    /\ op = "push_bytes" /\ ret = "Ok"
    /\ Len(pre) > 1 /\ Len(inner) > Len(pre)
    /\ as_c_str(inner) = inner


LexLess(x, y) ==
    \E k \in 0 .. Len(x) :
        /\ k <= Len(y)
        /\ \A i \in 1 .. k : x[i] = y[i]
        /\ \/ k = Len(x) /\ k < Len(y)
           \/ k < Len(x) /\ k < Len(y) /\ x[k + 1] < y[k + 1]

\* C13: for two valid buffers the derived equality and ordering, taken over
\* the physical bytes, agree with equality and lexicographic order of the
\* logical bytes.
C13_DerivedOrderLogical ==
    (op = "cmp" /\ NulOnlyLast(inner) /\ NulOnlyLast(arg)) =>
        /\ ret.eq <=> Logical(inner) = Logical(arg)
        /\ ret.ord = "Less" <=> LexLess(Logical(inner), Logical(arg))
        /\ ret.ord = "Greater" <=> LexLess(Logical(arg), Logical(inner))
        /\ ret.ord = "Equal" <=> ret.eq

C13_Witness ==
    /\ op = "cmp" /\ NulOnlyLast(inner) /\ NulOnlyLast(arg)
    /\ Len(inner) < Len(arg)
    /\ ret.ord = "Greater"


EqOps == {"eq_str", "eq_os_str", "eq_c_str", "eq_path"}

\* C14: a buffer compares equal to a &str, &OsStr, &CStr or &Path view
\* exactly when its logical bytes are the bytes of the view, and the result
\* is the same with the operands swapped.
C14_ViewEqualityByBytes ==
    (op \in EqOps /\ NulOnlyLast(inner)) =>
        /\ ret.fwd <=> Logical(inner) = arg
        /\ ret.rev <=> ret.fwd

\* What holds of the four comparisons: the text, OS-string and C-string ones
\* are by bytes, all four are symmetric, and equal bytes are an equal path.
C14_ByBytesButPath ==
    (op \in EqOps /\ NulOnlyLast(inner)) =>
        /\ op # "eq_path" => (ret.fwd <=> Logical(inner) = arg)
        /\ Logical(inner) = arg => ret.fwd
        /\ ret.rev <=> ret.fwd

\* A path of other bytes that compares equal: "a" and "a/".
C14_PathEqualOtherBytes ==
    /\ op = "eq_path" /\ NulOnlyLast(inner)
    /\ ret.fwd /\ ret.rev
    /\ Logical(inner) # arg


TryFromOps == {"try_from_vec", "from_string", "from_os_string", "from_pathbuf"}

\* C15: a conversion from a PathBuf, OsString, String or Vec<u8> holding the
\* bytes X has the outcome of from_bytes(X): the same Ok or InteriorNulByte
\* and, on Ok, the same buffer.
C15_TryFromIsFromBytes ==
    op \in TryFromOps =>
        /\ ret = from_bytes(arg).ret
        /\ ret \in {"Ok", "InteriorNulByte"}
        /\ ret = "Ok" => inner = from_bytes(arg).inner

C15_Witness ==
    /\ op = "from_os_string"
    /\ ret = "Ok"
    /\ Len(arg) = MaxArg /\ arg[Len(arg)] = 0
    /\ inner = arg


C17_RoundTrip ==
    /\ op = "from_cstring" => into_cstring(inner) = arg
    /\ (op = "from_pathbuf" /\ NoNul(arg)) =>
           /\ ret = "Ok"
           /\ into_pathbuf(inner) = arg
           /\ Path_eq(into_pathbuf(inner), arg)
    /\ (op = "from_os_string" /\ NoNul(arg)) =>
           /\ ret = "Ok"
           /\ into_os_string(inner) = arg

C17_Witness ==
    /\ op = "from_pathbuf" /\ NoNul(arg)
    /\ Len(arg) = MaxArg
    /\ Len(inner) = MaxArg + 1
    /\ into_pathbuf(inner) = arg


ConstructorOps == {"new", "with_capacity", "from_bytes", "from_cstring"} \cup TryFromOps

GrowthOps == {"push", "push_bytes", "extend_from_ptr"}

\* C18: no constructor and no growth operation returns MissingNulTerminator:
\* the only error they return is InteriorNulByte, and only validate() can
\* return MissingNulTerminator.
C18_MissingNulOnlyValidate ==
    /\ op \in ConstructorOps \cup GrowthOps =>
           ret \in {"Ok", "InteriorNulByte", "panic"}
    /\ ret = "MissingNulTerminator" => op = "validate"

C18_Witness ==
    /\ op = "extend_from_ptr"
    /\ ret = "Ok"
    /\ Len(pre) > 0 /\ pre[Len(pre)] # 0
    /\ validate(inner) = "Ok"


C20_LenNoWrap ==
    safe =>
        /\ len_with_nul(inner) >= 1
        /\ len(inner) = len_with_nul(inner) - 1
        /\ len(inner) + 1 = len_with_nul(inner)
        /\ len(inner) = Len(Logical(inner))
        /\ len(inner) = Len(as_bytes(inner))

C20_Witness ==
    /\ safe
    /\ op = "push_bytes" /\ ret = "Ok"
    /\ len(inner) = MaxArg
    /\ len_with_nul(inner) = MaxArg + 1


\* The well-formed UTF-8 byte sequences of one scalar value (Unicode,
\* table 3-7).
WellFormedScalar(s) ==
    \/ Len(s) = 1 /\ s[1] <= 127
    \/ Len(s) = 2 /\ s[1] \in 194 .. 223 /\ s[2] \in 128 .. 191
    \/ /\ Len(s) = 3
       /\ \/ s[1] = 224 /\ s[2] \in 160 .. 191
          \/ s[1] \in (225 .. 236) \cup {238, 239} /\ s[2] \in 128 .. 191
          \/ s[1] = 237 /\ s[2] \in 128 .. 159
       /\ s[3] \in 128 .. 191
    \/ /\ Len(s) = 4
       /\ \/ s[1] = 240 /\ s[2] \in 144 .. 191
          \/ s[1] \in 241 .. 243 /\ s[2] \in 128 .. 191
          \/ s[1] = 244 /\ s[2] \in 128 .. 143
       /\ s[3] \in 128 .. 191 /\ s[4] \in 128 .. 191

\* s is valid UTF-8: it can be cut into well-formed scalar sequences.
IsUtf8(s) ==
    \E cuts \in SUBSET (0 .. Len(s)) :
        /\ 0 \in cuts /\ Len(s) \in cuts
        /\ \A a \in cuts \ {Len(s)} :
               \E b \in cuts :
                   /\ b > a
                   /\ \A c \in cuts : ~(c > a /\ c < b)
                   /\ WellFormedScalar(SubSeq(s, a + 1, b))

\* C21: the text view of a valid buffer is decoded from the logical bytes
\* only: it is the logical bytes, without the terminating 0x00, when they
\* are valid UTF-8, and a decode error exactly when they are not.
C21_ToStrLogical ==
    (op = "to_str" /\ NulOnlyLast(inner)) =>
        /\ ret.ok <=> IsUtf8(Logical(inner))
        /\ ret.ok => (ret.str = Logical(inner) /\ NoNul(ret.str))
        /\ ~ret.ok => ret.valid_up_to < Len(Logical(inner))

C21_Witness ==
    /\ op = "to_str" /\ NulOnlyLast(inner)
    /\ ret.ok
    /\ Len(ret.str) = 2 /\ ret.str[1] > 127


\* The index, from 1, of the first 0x00 of a sequence that holds one.
FirstNul(s) == CHOOSE k \in 1 .. Len(s) : s[k] = 0 /\ \A j \in 1 .. k - 1 : s[j] # 0

\* C22: from_ptr on memory M whose first 0x00 is at index k gives the
\* physical bytes M[0..k], the bytes before that 0x00 and the 0x00: the
\* result passes validate() and nothing after index k is copied.
C22_FromPtrUpToNul ==
    op = "from_ptr" =>
        /\ inner = SubSeq(arg, 1, FirstNul(arg))
        /\ Len(inner) = FirstNul(arg)
        /\ validate(inner) = "Ok"
        /\ NulOnlyLast(inner)

C22_Witness ==
    /\ op = "from_ptr"
    /\ Len(inner) > 1
    /\ Len(arg) > Len(inner)
    /\ arg[Len(arg)] # 0


\* C23: in every state reached through safe operations is_empty() is true
\* exactly when len() = 0, which is exactly when the physical bytes are [0];
\* pushing "\0" onto an empty buffer leaves it empty with len() = 0 and
\* len_with_nul() = 1, and pushing non-empty NUL-free bytes makes it
\* non-empty.
C23_IsEmptyIffLenZero ==
    safe =>
        /\ is_empty(inner) <=> len(inner) = 0
        /\ is_empty(inner) <=> as_bytes_with_nul(inner) = <<0>>
        /\ (op \in {"push", "push_bytes"} /\ pre = <<0>> /\ arg = <<0>>) =>
               /\ ret = "Ok"
               /\ is_empty(inner)
               /\ len(inner) = 0
               /\ len_with_nul(inner) = 1
        /\ (op \in {"push", "push_bytes"} /\ arg # <<>> /\ NoNul(arg)) =>
               /\ ret = "Ok"
               /\ ~is_empty(inner)

C23_Witness ==
    /\ safe
    /\ op = "push" /\ pre = <<0>> /\ arg = <<0>>
    /\ ret = "Ok"
    /\ is_empty(inner)


\* C24: on a valid buffer push_bytes([]) and push_bytes([0x00]) return Ok
\* and leave the physical bytes as they were, at every place in a sequence
\* of pushes; the terminator stays single and last.
C24_PushNothing ==
    (op \in {"push_bytes", "push"} /\ NulOnlyLast(pre) /\ arg \in {<<>>, <<0>>}) =>
        /\ ret = "Ok"
        /\ inner = pre
        /\ NulOnlyLast(inner)

C24_Witness ==
    /\ op = "push_bytes" /\ NulOnlyLast(pre)
    /\ arg = <<0>>
    /\ Len(pre) = MaxLen
    /\ ret = "Ok" /\ inner = pre


\* The positions of push_bytes at which the inner buffer has been changed.
Mutated == {"Some:extend_from_slice", "None:extend_from_slice", "None:extend"}

\* C25: in push_bytes the scan for the first 0x00 of the suffix is over
\* before any step changes the inner buffer: an error is returned from the
\* scan alone with the buffer as it was at the call, and once the
\* terminator is removed the only next step is the append of the bytes.
C25_ScanBeforeMutation ==
    [][/\ (ret' = "InteriorNulByte" /\ ret # "InteriorNulByte") =>
              (ret = "match" /\ inner = pre /\ inner' = pre)
       /\ ret = "match" => inner' = inner
       /\ ret \in Mutated => ret' \in Mutated \cup {"Ok"}
       /\ ret \in {"Some:extend_from_slice", "None:extend_from_slice"} =>
              inner' = inner \o arg]_vars

C25_Witness ==
    /\ op = "push_bytes"
    /\ ret = "None:extend_from_slice"
    /\ NulOnlyLast(pre) /\ Len(pre) > 1
    /\ inner = Logical(pre)
    /\ NoNul(inner)

\* The statements of push_bytes, run to the end, give what push_bytes gives.
C25_StepsArePushBytes ==
    (op = "push_bytes" /\ ret \notin Running) =>
        \E debug \in Builds(pre) :
            /\ ret = push_bytes(pre, arg, debug).ret
            /\ inner = push_bytes(pre, arg, debug).inner


\* C26: whenever extend_slice runs in an execution of safe operations only,
\* the byte it removes from the end of the inner buffer is 0x00, so the
\* debug assertion holds, and inner.len() - 1 does not underflow.
C26_ExtendSliceRemovesNul ==
    safe =>
        /\ (op \in GrowthOps /\ ret # "InteriorNulByte") =>
               /\ Len(pre) - 1 >= 0
               /\ pre[Len(pre)] = 0
               /\ \A debug \in BOOLEAN : ~extend_slice(pre, arg, debug).panic
               /\ ret = "Ok"
        /\ Len(inner) - 1 >= 0
        /\ \A debug \in BOOLEAN : ~extend_slice(inner, <<>>, debug).panic

C26_Witness ==
    /\ safe
    /\ op = "extend_from_ptr" /\ ret = "Ok"
    /\ Len(pre) > 1 /\ pre[Len(pre)] = 0
    /\ Len(inner) > Len(pre)


\* C27: successive pushes concatenate: on a valid buffer push_bytes(S1) and
\* then push_bytes(S2), neither with an interior 0x00, leave the physical
\* bytes a single push_bytes of strip(S1) ++ S2 leaves, strip dropping one
\* trailing 0x00.
C27_PushesConcatenate ==
    (op = "push_bytes_twice" /\ NulOnlyLast(pre)) =>
        LET once == push_bytes(pre, StripNul(arg[1]) \o arg[2], FALSE) IN
        /\ ret = <<"Ok", "Ok">>
        /\ once.ret = "Ok"
        /\ inner = once.inner
        /\ inner = Logical(pre) \o StripNul(arg[1]) \o StripNul(arg[2]) \o <<0>>

C27_Witness ==
    /\ op = "push_bytes_twice" /\ NulOnlyLast(pre)
    /\ Len(pre) > 1
    /\ Len(arg[1]) = MaxArg /\ arg[1][MaxArg] = 0
    /\ Len(arg[2]) = MaxArg /\ arg[2][MaxArg] = 0
    /\ arg[1] # arg[2]
    /\ Len(inner) = Len(pre) + 2 * (MaxArg - 1)


\* C28: construction and growth agree: from_bytes(S) succeeds exactly when
\* push_bytes(S) on a fresh new() buffer does, both fail with
\* InteriorNulByte on the same S, and on success the physical bytes are the
\* same.
C28_FromBytesIsPushOnNew ==
    /\ (op = "push_bytes" /\ pre = new) =>
           /\ ret \in {"Ok", "InteriorNulByte"}
           /\ ret = from_bytes(arg).ret
           /\ ret = "Ok" => inner = from_bytes(arg).inner
    /\ op = "from_bytes" =>
           \A debug \in BOOLEAN :
               /\ ret = push_bytes(new, arg, debug).ret
               /\ ret = "Ok" => inner = push_bytes(new, arg, debug).inner

C28_Witness ==
    /\ op = "push_bytes" /\ pre = new
    /\ Len(arg) = MaxArg /\ arg[MaxArg] = 0
    /\ ret = "Ok"
    /\ inner = arg
    /\ from_bytes(arg).inner = arg


\* C29: extend_from_ptr on a valid buffer with logical bytes L and memory M
\* whose first 0x00 is at index k returns Ok, never InteriorNulByte, and
\* leaves L ++ M[0..k-1] ++ [0], as push_bytes of the bytes before that 0x00
\* does; on an empty buffer the result is the C string in the memory.
C29_ExtendFromPtr ==
    (op = "extend_from_ptr" /\ NulOnlyLast(pre)) =>
        LET before == SubSeq(arg, 1, FirstNul(arg) - 1) IN
        /\ ret = "Ok"
        /\ inner = Logical(pre) \o before \o <<0>>
        /\ \A debug \in BOOLEAN :
               push_bytes(pre, before, debug) = [ret |-> "Ok", inner |-> inner]
        /\ pre = <<0>> => inner = SubSeq(arg, 1, FirstNul(arg))

C29_Witness ==
    /\ op = "extend_from_ptr" /\ NulOnlyLast(pre)
    /\ Len(pre) > 1
    /\ Len(arg) = MaxLen /\ FirstNul(arg) = 2 /\ arg[MaxLen] # 0
    /\ ret = "Ok"
    /\ Len(inner) = Len(pre) + 1


\* C30: for every buffer reached through safe operations into_bytes()
\* returns the logical bytes: it equals as_bytes(), is one byte shorter than
\* into_bytes_with_nul(), and holds no 0x00, which is what the unchecked
\* CString construction of into_cstring requires.
C30_IntoBytesLogical ==
    safe =>
        /\ into_bytes(inner) # Panicked
        /\ into_bytes(inner) = Logical(inner)
        /\ into_bytes(inner) = as_bytes(inner)
        /\ Len(into_bytes(inner)) = Len(into_bytes_with_nul(inner)) - 1
        /\ NoNul(into_bytes(inner))
        /\ NulOnlyLast(into_cstring(inner) \o <<0>>)

C30_Witness ==
    /\ safe
    /\ op = "push" /\ ret = "Ok"
    /\ Len(inner) = MaxLen
    /\ into_bytes(inner) = as_bytes(inner)
    /\ Len(into_bytes(inner)) = MaxArg

====
